---- MODULE Spec2Model ----
(***************************************************************************)
(* A model of lightningcss' font properties (src/properties/font.rs): the  *)
(* value types with their parse and to_css operations, and FontHandler,    *)
(* the accumulator that folds font longhands into the `font` shorthand.    *)
(***************************************************************************)
EXTENDS Integers, Sequences, FiniteSets, TLC

(***************************************************************************)
(* Option<T>: None is the empty sequence, Some(v) the one-element one.     *)
(***************************************************************************)
None == <<>>

Some(v) == <<v>>

is_some(o) == o # None

unwrap(o) == o[1]

(***************************************************************************)
(* The value types.  An enum value is a record whose `tag` is the variant  *)
(* name; a payload has a field of its own.                                 *)
(***************************************************************************)
Dimension(n, u) == [tag |-> "Dimension", num |-> n, unit |-> u]

PercentageLP(p) == [tag |-> "Percentage", pct |-> p]

AbsWeight(n) == [tag |-> "Weight", num |-> n]

AbsNormal == [tag |-> "Normal"]

AbsBold == [tag |-> "Bold"]

WeightAbsolute(a) == [tag |-> "Absolute", abs |-> a]

WeightBolder == [tag |-> "Bolder"]

WeightLighter == [tag |-> "Lighter"]

FontWeightDefault == WeightAbsolute(AbsNormal)

SizeLength(lp) == [tag |-> "Length", lp |-> lp]

SizeAbsolute(k) == [tag |-> "Absolute", kw |-> k]

SizeRelative(k) == [tag |-> "Relative", kw |-> k]

StretchKeyword(k) == [tag |-> "Keyword", kw |-> k]

StretchPercentage(p) == [tag |-> "Percentage", pct |-> p]

FontStretchDefault == StretchKeyword("Normal")

FamilyName(words) == [tag |-> "FamilyName", name |-> words]

Generic(g) == [tag |-> "Generic", kw |-> g]

StyleNormal == [tag |-> "Normal"]

StyleItalic == [tag |-> "Italic"]

StyleOblique(deg) == [tag |-> "Oblique", angle |-> deg]

FontStyleDefault == StyleNormal

Caps(k) == [caps |-> k]

CapsCSS2(k) == [caps2 |-> k]

FontVariantCapsCSS2Default == CapsCSS2("Normal")

LineHeightNormal == [tag |-> "Normal"]

LineHeightNumber(n) == [tag |-> "Number", num |-> n]

LineHeightLength(lp) == [tag |-> "Length", lp |-> lp]

LineHeightDefault == LineHeightNormal

\* A to_css2 that maps every value but normal to small-caps.
to_css2_lossy(c) ==
  IF c = Caps("Normal") THEN Some(CapsCSS2("Normal")) ELSE Some(CapsCSS2("SmallCaps"))

to_css2(c) ==
  CASE c = Caps("Normal") -> Some(CapsCSS2("Normal"))
    [] c = Caps("SmallCaps") -> Some(CapsCSS2("SmallCaps"))
    [] OTHER -> None

\* A to_font_variant_caps that loses small-caps.
to_font_variant_caps_normal(c) == Caps("Normal")

to_font_variant_caps(c) ==
  CASE c = CapsCSS2("Normal") -> Caps("Normal")
    [] c = CapsCSS2("SmallCaps") -> Caps("SmallCaps")

unwrap_or_default_caps(o) == IF is_some(o) THEN o[1] ELSE FontVariantCapsCSS2Default

Font(fam, sz, st, w, str, lh, vc) ==
  [family |-> fam, size |-> sz, style |-> st, weight |-> w, stretch |-> str,
   line_height |-> lh, variant_caps |-> vc]

(***************************************************************************)
(* Property: the variant name and its value.  Unparsed carries the         *)
(* property id and the raw tokens (an opaque number here).                 *)
(***************************************************************************)
Property(variant, v) == [id |-> variant, val |-> v]

UnparsedProperty(pid, raw) == [property_id |-> pid, tokens |-> raw]

\* An is_font_property that accepts every property id.
is_font_property_any(property_id) == TRUE

is_font_property(property_id) ==
  property_id \in {"FontFamily", "FontSize", "FontStyle", "FontWeight",
                   "FontStretch", "FontVariantCaps", "LineHeight", "Font"}

(***************************************************************************)
(* CSS text.  A value is written as a sequence of tokens, the form in      *)
(* which a parser reads it back; white space between tokens is not kept.   *)
(* A number is an integer, a percentage is in tenths of a percent, and the *)
(* text of a string token is the sequence of its words, the pieces between *)
(* single spaces (so "My Font" is <<"My", "Font">>, the empty string is    *)
(* <<"">>, and "a  b" is <<"a", "", "b">>).                                *)
(***************************************************************************)
Token(t, s, n, w) == [t |-> t, s |-> s, n |-> n, w |-> w]

Ident(s) == Token("ident", s, 0, <<>>)

Number(n) == Token("number", "", n, <<>>)

PercentageToken(p) == Token("percentage", "", p, <<>>)

DimensionToken(n, u) == Token("dimension", u, n, <<>>)

QuotedString(words) == Token("string", "", 0, words)

Delim(c) == Token("delim", c, 0, <<>>)

Comma == Token("comma", ",", 0, <<>>)

\* One space character written between tokens.
Whitespace == Token("whitespace", " ", 0, <<>>)

\* The parser's next() passes over whitespace.
skip_whitespace(input) == SelectSeq(input, LAMBDA tok : tok.t # "whitespace")

\* Printer::whitespace and Printer::delim: a space unless minifying; the
\* delimiter with a space after it and, if asked, before it.
whitespace(minify) == IF minify THEN <<>> ELSE <<Whitespace>>

delim(tok, ws_before, minify) ==
  (IF ws_before THEN whitespace(minify) ELSE <<>>) \o <<tok>> \o whitespace(minify)

\* The words of the model that are not in lower case, with their lower case.
to_ascii_lowercase(s) ==
  CASE s = "SERIF" -> "serif"
    [] s = "My" -> "my"
    [] s = "Font" -> "font"
    [] OTHER -> s

\* Result<T, ParseError>: the value and the input left, or the error kind.
Ok(v, rest) == [ok |-> TRUE, val |-> v, rest |-> rest]

Err(kind) == [ok |-> FALSE, err |-> kind]

\* The error of a parser that met `input` where it expected something else.
Unexpected(input) == IF input = <<>> THEN Err("EndOfInput") ELSE Err("UnexpectedToken")

expect_ident(input) ==
  IF input # <<>> /\ input[1].t = "ident" THEN Ok(input[1].s, Tail(input)) ELSE Unexpected(input)

expect_ident_matching(input, name) ==
  IF input # <<>> /\ input[1].t = "ident" /\ to_ascii_lowercase(input[1].s) = name
    THEN Ok(name, Tail(input))
    ELSE Unexpected(input)

expect_string(input) ==
  IF input # <<>> /\ input[1].t = "string" THEN Ok(input[1].w, Tail(input)) ELSE Unexpected(input)

expect_delim(input, c) ==
  IF input # <<>> /\ input[1].t = "delim" /\ input[1].s = c
    THEN Ok(c, Tail(input))
    ELSE Unexpected(input)

(***************************************************************************)
(* The leaf value types the font module composes: numbers, percentages,    *)
(* lengths and angles.                                                     *)
(***************************************************************************)
LengthUnits == {"px", "em"}

CSSNumber_parse(input) ==
  IF input # <<>> /\ input[1].t = "number" THEN Ok(input[1].n, Tail(input)) ELSE Unexpected(input)

CSSNumber_to_css(n) == <<Number(n)>>

Percentage_parse(input) ==
  IF input # <<>> /\ input[1].t = "percentage"
    THEN Ok(input[1].n, Tail(input))
    ELSE Unexpected(input)

Percentage_to_css(p) == <<PercentageToken(p)>>

LengthPercentage_parse(input) ==
  IF input # <<>> /\ input[1].t = "dimension" /\ input[1].s \in LengthUnits
    THEN Ok(Dimension(input[1].n, input[1].s), Tail(input))
  ELSE IF input # <<>> /\ input[1].t = "percentage"
    THEN Ok(PercentageLP(input[1].n), Tail(input))
  ELSE Unexpected(input)

LengthPercentage_to_css(lp) ==
  IF lp.tag = "Dimension" THEN <<DimensionToken(lp.num, lp.unit)>> ELSE <<PercentageToken(lp.pct)>>

Angle_parse(input) ==
  IF input # <<>> /\ input[1].t = "dimension" /\ input[1].s = "deg"
    THEN Ok(input[1].n, Tail(input))
    ELSE Unexpected(input)

Angle_to_css(deg) == <<DimensionToken(deg, "deg")>>

(***************************************************************************)
(* enum_property!: a keyword enum is the sequence of its variants with     *)
(* their keywords.  parse reads one identifier and looks it up, to_css     *)
(* writes the variant's keyword.                                           *)
(***************************************************************************)
AbsoluteFontSize ==
  <<<<"XXSmall", "xx-small">>, <<"XSmall", "x-small">>, <<"Small", "small">>,
    <<"Medium", "medium">>, <<"Large", "large">>, <<"XLarge", "x-large">>,
    <<"XXLarge", "xx-large">>>>

RelativeFontSize == <<<<"Smaller", "smaller">>, <<"Larger", "larger">>>>

FontStretchKeyword ==
  <<<<"Normal", "normal">>, <<"UltraCondensed", "ultra-condensed">>,
    <<"ExtraCondensed", "extra-condensed">>, <<"Condensed", "condensed">>,
    <<"SemiCondensed", "semi-condensed">>, <<"SemiExpanded", "semi-expanded">>,
    <<"Expanded", "expanded">>, <<"ExtraExpanded", "extra-expanded">>,
    <<"UltraExpanded", "ultra-expanded">>>>

GenericFontFamily ==
  <<<<"Serif", "serif">>, <<"SansSerif", "sans-serif">>, <<"Cursive", "cursive">>,
    <<"Fantasy", "fantasy">>, <<"Monospace", "monospace">>, <<"SystemUI", "system-ui">>,
    <<"Emoji", "emoji">>, <<"Math", "math">>, <<"FangSong", "fangsong">>,
    <<"UISerif", "ui-serif">>, <<"UISansSerif", "ui-sans-serif">>,
    <<"UIMonospace", "ui-monospace">>, <<"UIRounded", "ui-rounded">>,
    <<"Initial", "initial">>, <<"Inherit", "inherit">>, <<"Unset", "unset">>,
    <<"Default", "default">>, <<"Revert", "revert">>, <<"RevertLayer", "revert-layer">>>>

FontVariantCaps ==
  <<<<"Normal", "normal">>, <<"SmallCaps", "small-caps">>,
    <<"AllSmallCaps", "all-small-caps">>, <<"PetiteCaps", "petite-caps">>,
    <<"AllPetiteCaps", "all-petite-caps">>, <<"Unicase", "unicase">>,
    <<"TitlingCaps", "titling-caps">>>>

FontVariantCapsCSS2 == <<<<"Normal", "normal">>, <<"SmallCaps", "small-caps">>>>

VerticalAlignKeyword ==
  <<<<"Baseline", "baseline">>, <<"Sub", "sub">>, <<"Super", "super">>, <<"Top", "top">>,
    <<"TextTop", "text-top">>, <<"Middle", "middle">>, <<"Bottom", "bottom">>,
    <<"TextBottom", "text-bottom">>>>

Variants(enum) == {enum[i][1] : i \in 1..Len(enum)}

KeywordOf(enum, variant) == enum[CHOOSE i \in 1..Len(enum) : enum[i][1] = variant][2]

\* Self::parse_string: the variant whose keyword is `s`, ASCII case aside.
enum_parse_string(enum, s) ==
  LET hits == {i \in 1..Len(enum) : enum[i][2] = to_ascii_lowercase(s)}
  IN IF hits = {} THEN None ELSE Some(enum[CHOOSE i \in hits : TRUE][1])

enum_parse(enum, input) ==
  LET ident == expect_ident(input)
  IN IF ~ident.ok THEN ident
     ELSE IF is_some(enum_parse_string(enum, ident.val))
       THEN Ok(unwrap(enum_parse_string(enum, ident.val)), ident.rest)
       ELSE Err("UnexpectedToken")

enum_to_css(enum, variant) == <<Ident(KeywordOf(enum, variant))>>

(***************************************************************************)
(* Parse and ToCss of the font value types.  try_parse is the attempt on   *)
(* the same input: a failed attempt consumes nothing.                      *)
(***************************************************************************)
AbsoluteFontWeight_parse(input) ==
  LET num == CSSNumber_parse(input)
      ident == expect_ident(input)
  IN IF num.ok THEN Ok(AbsWeight(num.val), num.rest)
     ELSE IF ~ident.ok THEN ident
     ELSE IF to_ascii_lowercase(ident.val) = "normal" THEN Ok(AbsNormal, ident.rest)
     ELSE IF to_ascii_lowercase(ident.val) = "bold" THEN Ok(AbsBold, ident.rest)
     ELSE Err("UnexpectedToken")

AbsoluteFontWeight_to_css(v, minify) ==
  CASE v.tag = "Weight" -> CSSNumber_to_css(v.num)
    [] v.tag = "Normal" -> IF minify THEN <<Number(400)>> ELSE <<Ident("normal")>>
    [] v.tag = "Bold" -> IF minify THEN <<Number(700)>> ELSE <<Ident("bold")>>

FontWeight_parse(input) ==
  LET abs == AbsoluteFontWeight_parse(input)
      ident == expect_ident(input)
  IN IF abs.ok THEN Ok(WeightAbsolute(abs.val), abs.rest)
     ELSE IF ~ident.ok THEN ident
     ELSE IF to_ascii_lowercase(ident.val) = "bolder" THEN Ok(WeightBolder, ident.rest)
     ELSE IF to_ascii_lowercase(ident.val) = "lighter" THEN Ok(WeightLighter, ident.rest)
     ELSE Err("UnexpectedToken")

FontWeight_to_css(v, minify) ==
  CASE v.tag = "Absolute" -> AbsoluteFontWeight_to_css(v.abs, minify)
    [] v.tag = "Bolder" -> <<Ident("bolder")>>
    [] v.tag = "Lighter" -> <<Ident("lighter")>>

FontSize_parse(input) ==
  LET len == LengthPercentage_parse(input)
      abs == enum_parse(AbsoluteFontSize, input)
      rel == enum_parse(RelativeFontSize, input)
  IN IF len.ok THEN Ok(SizeLength(len.val), len.rest)
     ELSE IF abs.ok THEN Ok(SizeAbsolute(abs.val), abs.rest)
     ELSE IF rel.ok THEN Ok(SizeRelative(rel.val), rel.rest)
     ELSE rel

FontSize_to_css(v, minify) ==
  CASE v.tag = "Absolute" -> enum_to_css(AbsoluteFontSize, v.kw)
    [] v.tag = "Length" -> LengthPercentage_to_css(v.lp)
    [] v.tag = "Relative" -> enum_to_css(RelativeFontSize, v.kw)

FontStretchKeyword_to_percentage(k) ==
  CASE k = "UltraCondensed" -> 500
    [] k = "ExtraCondensed" -> 625
    [] k = "Condensed" -> 750
    [] k = "SemiCondensed" -> 875
    [] k = "Normal" -> 1000
    [] k = "SemiExpanded" -> 1125
    [] k = "Expanded" -> 1250
    [] k = "ExtraExpanded" -> 1500
    [] k = "UltraExpanded" -> 2000

FontStretch_parse(input) ==
  LET pct == Percentage_parse(input)
      keyword == enum_parse(FontStretchKeyword, input)
  IN IF pct.ok THEN Ok(StretchPercentage(pct.val), pct.rest)
     ELSE IF keyword.ok THEN Ok(StretchKeyword(keyword.val), keyword.rest)
     ELSE keyword

FontStretch_to_percentage(v) ==
  IF v.tag = "Percentage" THEN v.pct ELSE FontStretchKeyword_to_percentage(v.kw)

FontStretch_to_css(v, minify) ==
  IF minify THEN Percentage_to_css(FontStretch_to_percentage(v))
  ELSE IF v.tag = "Percentage" THEN Percentage_to_css(v.pct)
  ELSE enum_to_css(FontStretchKeyword, v.kw)

\* The identifiers that follow the first one of an unquoted family name.
RECURSIVE more_idents(_)
more_idents(input) ==
  LET ident == expect_ident(input)
  IN IF ~ident.ok THEN [words |-> <<>>, rest |-> input]
     ELSE LET more == more_idents(ident.rest)
          IN [words |-> <<ident.val>> \o more.words, rest |-> more.rest]

FontFamily_parse(input) ==
  LET string == expect_string(input)
      generic == enum_parse(GenericFontFamily, input)
      value == expect_ident(input)
  IN IF string.ok THEN Ok(FamilyName(string.val), string.rest)
     ELSE IF generic.ok THEN Ok(Generic(generic.val), generic.rest)
     ELSE IF ~value.ok THEN value
     ELSE Ok(FamilyName(<<value.val>> \o more_idents(value.rest).words),
             more_idents(value.rest).rest)

\* str::len of the words of the model.
word_len(w) ==
  CASE w = "" -> 0
    [] w = "x" -> 1
    [] w = "My" -> 2
    [] w = "a!" -> 2
    [] w = "Font" -> 4
    [] w \in {"serif", "SERIF", "123px"} -> 5
    [] w \in {"inherit", "default"} -> 7
    [] w = "sans-serif" -> 10

\* serialize_identifier: the text it writes reads back as the identifier `w`
\* (as nothing when `w` is empty); its length counts the escapes: `a!` is
\* written a\!, and 123px, which starts with a digit, \31 23px.
serialize_identifier(w) ==
  [tokens |-> IF w = "" THEN <<>> ELSE <<Ident(w)>>,
   len |-> CASE w = "a!" -> 3
             [] w = "123px" -> 8
             [] OTHER -> word_len(w)]

RECURSIVE name_len(_)
\* val.len(): the words and the spaces between them.
name_len(words) ==
  IF Len(words) = 1 THEN word_len(words[1]) ELSE word_len(words[1]) + 1 + name_len(Tail(words))

RECURSIVE identifier_sequence(_)
\* The id string FontFamily::to_css builds: the words serialized as identifiers
\* and joined by spaces.
identifier_sequence(words) ==
  LET first == serialize_identifier(words[1])
  IN IF Len(words) = 1 THEN first
     ELSE LET others == identifier_sequence(Tail(words))
          IN [tokens |-> (first.tokens \o <<Whitespace>>) \o others.tokens,
              len |-> first.len + 1 + others.len]

\* FontFamily::to_css without the test for a generic family's spelling.
FontFamily_to_css_no_generic_test(v, minify) ==
  IF v.tag = "Generic" THEN enum_to_css(GenericFontFamily, v.kw)
  ELSE LET val == v.name
           id == identifier_sequence(val)
       IN IF val # <<"">> /\ id.len < name_len(val) + 2
            THEN id.tokens
            ELSE <<QuotedString(val)>>

FontFamily_to_css(v, minify) ==
  IF v.tag = "Generic" THEN enum_to_css(GenericFontFamily, v.kw)
  ELSE LET val == v.name
           is_empty == val = <<"">>
           is_generic == Len(val) = 1 /\ is_some(enum_parse_string(GenericFontFamily, val[1]))
           id == identifier_sequence(val)
       IN IF ~is_empty /\ ~is_generic /\ id.len < name_len(val) + 2
            THEN id.tokens
            ELSE <<QuotedString(val)>>

FontStyle_parse(input) ==
  LET ident == expect_ident(input)
  IN IF ~ident.ok THEN ident
     ELSE IF to_ascii_lowercase(ident.val) = "normal" THEN Ok(StyleNormal, ident.rest)
     ELSE IF to_ascii_lowercase(ident.val) = "italic" THEN Ok(StyleItalic, ident.rest)
     ELSE IF to_ascii_lowercase(ident.val) = "oblique"
       THEN LET angle == Angle_parse(ident.rest)
            IN IF angle.ok THEN Ok(StyleOblique(angle.val), angle.rest)
               ELSE Ok(StyleOblique(14), ident.rest)
     ELSE Err("UnexpectedToken")

FontStyle_to_css(v, minify) ==
  CASE v.tag = "Normal" -> <<Ident("normal")>>
    [] v.tag = "Italic" -> <<Ident("italic")>>
    [] v.tag = "Oblique" ->
         IF v.angle # 14 THEN <<Ident("oblique"), Whitespace>> \o Angle_to_css(v.angle)
         ELSE <<Ident("oblique")>>

FontVariantCaps_parse(input) ==
  LET r == enum_parse(FontVariantCaps, input)
  IN IF r.ok THEN Ok(Caps(r.val), r.rest) ELSE r

FontVariantCaps_to_css(v, minify) == enum_to_css(FontVariantCaps, v.caps)

FontVariantCapsCSS2_parse(input) ==
  LET r == enum_parse(FontVariantCapsCSS2, input)
  IN IF r.ok THEN Ok(CapsCSS2(r.val), r.rest) ELSE r

FontVariantCapsCSS2_to_css(v, minify) == enum_to_css(FontVariantCapsCSS2, v.caps2)

LineHeight_parse(input) ==
  LET num == CSSNumber_parse(input)
      len == LengthPercentage_parse(input)
  IN IF expect_ident_matching(input, "normal").ok THEN Ok(LineHeightNormal, Tail(input))
     ELSE IF num.ok THEN Ok(LineHeightNumber(num.val), num.rest)
     ELSE IF len.ok THEN Ok(LineHeightLength(len.val), len.rest)
     ELSE len

LineHeight_to_css(v, minify) ==
  CASE v.tag = "Normal" -> <<Ident("normal")>>
    [] v.tag = "Number" -> CSSNumber_to_css(v.num)
    [] v.tag = "Length" -> LengthPercentage_to_css(v.lp)

VerticalAlignKw(k) == [tag |-> "Keyword", kw |-> k]

VerticalAlignLength(lp) == [tag |-> "Length", lp |-> lp]

VerticalAlign_parse(input) ==
  LET len == LengthPercentage_parse(input)
      kw == enum_parse(VerticalAlignKeyword, input)
  IN IF len.ok THEN Ok(VerticalAlignLength(len.val), len.rest)
     ELSE IF kw.ok THEN Ok(VerticalAlignKw(kw.val), kw.rest)
     ELSE kw

VerticalAlign_to_css(v, minify) ==
  IF v.tag = "Keyword" THEN enum_to_css(VerticalAlignKeyword, v.kw)
  ELSE LengthPercentage_to_css(v.lp)

\* The tokens before the first comma, and those after it.
RECURSIVE until_comma(_)
until_comma(input) ==
  IF input = <<>> THEN [item |-> <<>>, more |-> FALSE, rest |-> <<>>]
  ELSE IF input[1].t = "comma" THEN [item |-> <<>>, more |-> TRUE, rest |-> Tail(input)]
  ELSE LET u == until_comma(Tail(input))
       IN [item |-> <<input[1]>> \o u.item, more |-> u.more, rest |-> u.rest]

RECURSIVE parse_comma_separated_family(_)
\* input.parse_comma_separated(FontFamily::parse): each item is parsed from the
\* tokens up to the next comma and must use them all.
parse_comma_separated_family(input) ==
  LET u == until_comma(input)
      one == FontFamily_parse(u.item)
  IN IF ~one.ok THEN one
     ELSE IF one.rest # <<>> THEN Err("UnexpectedToken")
     ELSE IF ~u.more THEN Ok(<<one.val>>, <<>>)
     ELSE LET others == parse_comma_separated_family(u.rest)
          IN IF ~others.ok THEN others ELSE Ok(<<one.val>> \o others.val, <<>>)

RECURSIVE font_components(_, _)

\* The loop with the style taken again when one is already there.
font_components_style_twice(input, c) ==
  LET st == FontStyle_parse(input)
      w == FontWeight_parse(input)
      vc == FontVariantCapsCSS2_parse(input)
      str == enum_parse(FontStretchKeyword, input)
      sz == FontSize_parse(input)
  IN IF expect_ident_matching(input, "normal").ok
       THEN font_components(Tail(input), [c EXCEPT !.count = @ + 1])
     ELSE IF st.ok
       THEN font_components(st.rest, [c EXCEPT !.style = Some(st.val), !.count = @ + 1])
     ELSE IF c.weight = None /\ w.ok
       THEN font_components(w.rest, [c EXCEPT !.weight = Some(w.val), !.count = @ + 1])
     ELSE IF c.variant_caps = None /\ vc.ok
       THEN font_components(vc.rest, [c EXCEPT !.variant_caps = Some(vc.val), !.count = @ + 1])
     ELSE IF c.stretch = None /\ str.ok
       THEN font_components(str.rest,
              [c EXCEPT !.stretch = Some(StretchKeyword(str.val)), !.count = @ + 1])
     ELSE IF sz.ok THEN Ok([c EXCEPT !.size = Some(sz.val)], sz.rest)
     ELSE sz

\* The loop of Font::parse: the components before the size, then the size.
font_components(input, c) ==
  LET st == FontStyle_parse(input)
      w == FontWeight_parse(input)
      vc == FontVariantCapsCSS2_parse(input)
      str == enum_parse(FontStretchKeyword, input)
      sz == FontSize_parse(input)
  IN IF expect_ident_matching(input, "normal").ok
       THEN font_components(Tail(input), [c EXCEPT !.count = @ + 1])
     ELSE IF c.style = None /\ st.ok
       THEN font_components(st.rest, [c EXCEPT !.style = Some(st.val), !.count = @ + 1])
     ELSE IF c.weight = None /\ w.ok
       THEN font_components(w.rest, [c EXCEPT !.weight = Some(w.val), !.count = @ + 1])
     ELSE IF c.variant_caps = None /\ vc.ok
       THEN font_components(vc.rest, [c EXCEPT !.variant_caps = Some(vc.val), !.count = @ + 1])
     ELSE IF c.stretch = None /\ str.ok
       THEN font_components(str.rest,
              [c EXCEPT !.stretch = Some(StretchKeyword(str.val)), !.count = @ + 1])
     ELSE IF sz.ok THEN Ok([c EXCEPT !.size = Some(sz.val)], sz.rest)
     ELSE sz

unwrap_or_default(o, default) == IF is_some(o) THEN o[1] ELSE default

Font_parse(input) ==
  LET c == font_components(input,
             [style |-> None, weight |-> None, stretch |-> None, size |-> None,
              variant_caps |-> None, count |-> 0])
  IN IF ~c.ok THEN c
     ELSE IF c.val.count > 4 THEN Err("InvalidDeclaration")
     ELSE IF c.val.size = None THEN Err("InvalidDeclaration")
     ELSE LET slash == expect_delim(c.rest, "/")
              lh == LineHeight_parse(slash.rest)
              line_height == IF slash.ok THEN Some(lh.val) ELSE None
              family == parse_comma_separated_family(IF slash.ok THEN lh.rest ELSE c.rest)
          IN IF slash.ok /\ ~lh.ok THEN lh
             ELSE IF ~family.ok THEN family
             ELSE Ok(Font(family.val, unwrap(c.val.size),
                          unwrap_or_default(c.val.style, FontStyleDefault),
                          unwrap_or_default(c.val.weight, FontWeightDefault),
                          unwrap_or_default(c.val.stretch, FontStretchDefault),
                          unwrap_or_default(line_height, LineHeightDefault),
                          unwrap_or_default(c.val.variant_caps, FontVariantCapsCSS2Default)),
                     family.rest)

RECURSIVE family_list_to_css(_, _)
\* The families, a comma after each but the last.
family_list_to_css(fam, minify) ==
  IF fam = <<>> THEN <<>>
  ELSE IF Len(fam) = 1 THEN FontFamily_to_css(fam[1], minify)
  ELSE (FontFamily_to_css(fam[1], minify) \o delim(Comma, FALSE, minify))
         \o family_list_to_css(Tail(fam), minify)

\* Font::to_css with the weight written before the variant-caps.
Font_to_css_weight_first(v, minify) ==
  (IF v.style # FontStyleDefault
     THEN FontStyle_to_css(v.style, minify) \o <<Whitespace>> ELSE <<>>)
    \o (IF v.weight # FontWeightDefault
          THEN FontWeight_to_css(v.weight, minify) \o <<Whitespace>> ELSE <<>>)
    \o (IF v.variant_caps # FontVariantCapsCSS2Default
          THEN FontVariantCapsCSS2_to_css(v.variant_caps, minify) \o <<Whitespace>> ELSE <<>>)
    \o (IF v.stretch # FontStretchDefault
          THEN FontStretch_to_css(v.stretch, minify) \o <<Whitespace>> ELSE <<>>)
    \o FontSize_to_css(v.size, minify)
    \o (IF v.line_height # LineHeightDefault
          THEN delim(Delim("/"), TRUE, minify) \o LineHeight_to_css(v.line_height, minify)
          ELSE <<>>)
    \o <<Whitespace>>
    \o family_list_to_css(v.family, minify)

Font_to_css(v, minify) ==
  (IF v.style # FontStyleDefault
     THEN FontStyle_to_css(v.style, minify) \o <<Whitespace>> ELSE <<>>)
    \o (IF v.variant_caps # FontVariantCapsCSS2Default
          THEN FontVariantCapsCSS2_to_css(v.variant_caps, minify) \o <<Whitespace>> ELSE <<>>)
    \o (IF v.weight # FontWeightDefault
          THEN FontWeight_to_css(v.weight, minify) \o <<Whitespace>> ELSE <<>>)
    \o (IF v.stretch # FontStretchDefault
          THEN FontStretch_to_css(v.stretch, minify) \o <<Whitespace>> ELSE <<>>)
    \o FontSize_to_css(v.size, minify)
    \o (IF v.line_height # LineHeightDefault
          THEN delim(Delim("/"), TRUE, minify) \o LineHeight_to_css(v.line_height, minify)
          ELSE <<>>)
    \o <<Whitespace>>
    \o family_list_to_css(v.family, minify)

(***************************************************************************)
(* FontHandler.                                                            *)
(***************************************************************************)
VARIABLES family, size, style, weight, stretch, line_height, variant_caps,
          has_any, dest, last, ntail

\* A value on its way through to_css and back through parse: the property it
\* belongs to, the value, the printer's minify flag, the text written, and what
\* parsing the text gave.
VARIABLES pc, ty, value, minify, css, result

textVars == <<pc, ty, value, minify, css, result>>

\* The handler and the list of a rule's `!important` declarations (the
\* variables above hold those of its normal declarations), and the declarations
\* taken in so far.
VARIABLES important, taken

blockVars == <<important, taken>>

handlerVars == <<family, size, style, weight, stretch, line_height, variant_caps, has_any>>

vars == <<family, size, style, weight, stretch, line_height, variant_caps,
          has_any, dest, last, ntail, pc, ty, value, minify, css, result, important, taken>>

FontHandler(fam, sz, st, w, str, lh, vc, any) ==
  [family |-> fam, size |-> sz, style |-> st, weight |-> w, stretch |-> str,
   line_height |-> lh, variant_caps |-> vc, has_any |-> any]

FontHandlerDefault == FontHandler(None, None, None, None, None, None, None, FALSE)

Self == FontHandler(family, size, style, weight, stretch, line_height, variant_caps, has_any)

\* A push that puts the declaration at the front of the list.
push_some_front(decls, variant, o) ==
  IF is_some(o) THEN <<Property(variant, o[1])>> \o decls ELSE decls

push_some(decls, variant, o) == IF is_some(o) THEN Append(decls, Property(variant, o[1])) ELSE decls

\* The completeness test without line_height.
all_some_without_line_height(self) ==
  /\ is_some(self.family)
  /\ is_some(self.size)
  /\ is_some(self.style)
  /\ is_some(self.weight)
  /\ is_some(self.stretch)
  /\ is_some(self.variant_caps)

all_some(self) ==
  /\ is_some(self.family)
  /\ is_some(self.size)
  /\ is_some(self.style)
  /\ is_some(self.weight)
  /\ is_some(self.stretch)
  /\ is_some(self.line_height)
  /\ is_some(self.variant_caps)

\* A finalize that appends the font-variant-caps longhand after every shorthand.
finalize_shorthand_always_caps(self, decls) ==
  Append(
    Append(decls, Property("Font",
      Font(unwrap(self.family), unwrap(self.size), unwrap(self.style),
           unwrap(self.weight), unwrap(self.stretch), unwrap(self.line_height),
           unwrap_or_default_caps(to_css2(unwrap(self.variant_caps)))))),
    Property("FontVariantCaps", unwrap(self.variant_caps)))

\* A finalize that pushes the font-variant-caps longhand before the shorthand.
finalize_shorthand_caps_first(self, decls) ==
  LET caps == to_css2(unwrap(self.variant_caps))
      font == Property("Font",
                Font(unwrap(self.family), unwrap(self.size), unwrap(self.style),
                     unwrap(self.weight), unwrap(self.stretch), unwrap(self.line_height),
                     unwrap_or_default_caps(caps)))
  IN IF caps = None
       THEN Append(Append(decls, Property("FontVariantCaps", unwrap(self.variant_caps))), font)
       ELSE Append(decls, font)

finalize_shorthand(self, decls) ==
  LET caps == to_css2(unwrap(self.variant_caps))
      d1 == Append(decls, Property("Font",
              Font(unwrap(self.family), unwrap(self.size), unwrap(self.style),
                   unwrap(self.weight), unwrap(self.stretch), unwrap(self.line_height),
                   unwrap_or_default_caps(caps))))
  IN IF caps = None
       THEN Append(d1, Property("FontVariantCaps", unwrap(self.variant_caps)))
       ELSE d1

\* A finalize that emits font-weight before font-variant-caps.
finalize_longhands_weight_first(self, decls) ==
  LET d1 == push_some(decls, "FontFamily", self.family)
      d2 == push_some(d1, "FontSize", self.size)
      d3 == push_some(d2, "FontStyle", self.style)
      d4 == push_some(d3, "FontWeight", self.weight)
      d5 == push_some(d4, "FontVariantCaps", self.variant_caps)
      d6 == push_some(d5, "FontStretch", self.stretch)
  IN push_some(d6, "LineHeight", self.line_height)

finalize_longhands(self, decls) ==
  LET d1 == push_some(decls, "FontFamily", self.family)
      d2 == push_some(d1, "FontSize", self.size)
      d3 == push_some(d2, "FontStyle", self.style)
      d4 == push_some(d3, "FontVariantCaps", self.variant_caps)
      d5 == push_some(d4, "FontWeight", self.weight)
      d6 == push_some(d5, "FontStretch", self.stretch)
  IN push_some(d6, "LineHeight", self.line_height)

\* A finalize that takes the slots but leaves has_any set.
finalize_taken_keeps_flag(self) ==
  [self EXCEPT !.family = None, !.size = None, !.style = None, !.weight = None,
               !.stretch = None, !.line_height = None, !.variant_caps = None]

\* A finalize that clears has_any but leaves the family slot populated.
finalize_taken_keeps_family(self) ==
  [self EXCEPT !.has_any = FALSE, !.size = None, !.style = None, !.weight = None,
               !.stretch = None, !.line_height = None, !.variant_caps = None]

\* self.has_any = false and the seven std::mem::take calls.
finalize_taken(self) ==
  [self EXCEPT !.has_any = FALSE, !.family = None, !.size = None, !.style = None,
               !.weight = None, !.stretch = None, !.line_height = None,
               !.variant_caps = None]

\* finalize(&mut self, decls): the handler and the list after the call.
finalize(self, decls) ==
  IF ~self.has_any
    THEN [self |-> self, decls |-> decls]
    ELSE [self |-> finalize_taken(self),
          decls |-> IF all_some(self)
                      THEN finalize_shorthand(self, decls)
                      ELSE finalize_longhands(self, decls)]

\* The Options finalize calls unwrap on, in the order of the calls.
finalize_unwraps(self) ==
  IF self.has_any /\ all_some(self)
    THEN <<self.variant_caps, self.family, self.size, self.style, self.weight, self.stretch,
           self.line_height>>
           \o (IF to_css2(self.variant_caps[1]) = None THEN <<self.variant_caps>> ELSE <<>>)
    ELSE <<>>

store_longhand(self, property) ==
  CASE property.id = "FontFamily" -> [self EXCEPT !.family = Some(property.val), !.has_any = TRUE]
    [] property.id = "FontSize" -> [self EXCEPT !.size = Some(property.val), !.has_any = TRUE]
    [] property.id = "FontStyle" -> [self EXCEPT !.style = Some(property.val), !.has_any = TRUE]
    [] property.id = "FontWeight" -> [self EXCEPT !.weight = Some(property.val), !.has_any = TRUE]
    [] property.id = "FontStretch" -> [self EXCEPT !.stretch = Some(property.val), !.has_any = TRUE]
    [] property.id = "FontVariantCaps" ->
         [self EXCEPT !.variant_caps = Some(property.val), !.has_any = TRUE]
    [] property.id = "LineHeight" ->
         [self EXCEPT !.line_height = Some(property.val), !.has_any = TRUE]

\* A shorthand intake that keeps a line-height accumulated before.
store_shorthand_keeps_line_height(self, val) ==
  FontHandler(Some(val.family), Some(val.size), Some(val.style), Some(val.weight),
              Some(val.stretch),
              IF is_some(self.line_height) THEN self.line_height ELSE Some(val.line_height),
              Some(to_font_variant_caps(val.variant_caps)), TRUE)

store_shorthand(self, val) ==
  FontHandler(Some(val.family), Some(val.size), Some(val.style), Some(val.weight),
              Some(val.stretch), Some(val.line_height),
              Some(to_font_variant_caps(val.variant_caps)), TRUE)

\* A raw intake that pushes the raw declaration before flushing.
push_unparsed_before_flush(self, property, decls) ==
  LET f == finalize(self, Append(decls, property))
  IN [self |-> f.self, decls |-> f.decls]

push_unparsed(self, property, decls) ==
  LET f == finalize(self, decls)
  IN [self |-> f.self, decls |-> Append(f.decls, property)]

LonghandIds ==
  {"FontFamily", "FontSize", "FontStyle", "FontWeight", "FontStretch",
   "FontVariantCaps", "LineHeight"}

\* handle_property(&mut self, property, dest): the handler, the list and the
\* returned boolean after the call.
handle_property(self, property, decls) ==
  CASE property.id \in LonghandIds ->
         [self |-> store_longhand(self, property), decls |-> decls, ret |-> TRUE]
    [] property.id = "Font" ->
         [self |-> store_shorthand(self, property.val), decls |-> decls, ret |-> TRUE]
    [] property.id = "Unparsed" /\ is_font_property(property.val.property_id) ->
         LET u == push_unparsed(self, property, decls)
         IN [self |-> u.self, decls |-> u.decls, ret |-> TRUE]
    [] OTHER -> [self |-> self, decls |-> decls, ret |-> FALSE]

(***************************************************************************)
(* The declarations fed to the handler.  Each longhand is offered with the *)
(* values below, the shorthand with two values that differ from them in    *)
(* every field, and raw declarations with every font property id and one   *)
(* id outside the group.                                                   *)
(***************************************************************************)
\* How many declarations the handler accepts once the output list is no longer
\* empty.
MaxTail == 1

FamilyL == <<Generic("Serif")>>

FontA ==
  Font(<<FamilyName(<<"My", "Font">>), Generic("SansSerif")>>, SizeAbsolute("Medium"),
       StyleNormal, WeightBolder, StretchKeyword("Condensed"), LineHeightNormal,
       CapsCSS2("Normal"))

FontB ==
  Font(<<Generic("Monospace")>>, SizeRelative("Larger"), StyleOblique(20),
       WeightAbsolute(AbsWeight(400)), StretchKeyword("Normal"),
       LineHeightLength(PercentageLP(1200)), CapsCSS2("SmallCaps"))

InLonghands ==
  {Property("FontFamily", FamilyL),
   Property("FontSize", SizeLength(Dimension(12, "px"))),
   Property("FontStyle", StyleItalic),
   Property("FontWeight", WeightAbsolute(AbsBold)),
   Property("FontStretch", StretchPercentage(500)),
   Property("LineHeight", LineHeightNumber(2)),
   Property("FontVariantCaps", Caps("SmallCaps")),
   Property("FontVariantCaps", Caps("AllSmallCaps"))}

InShorthands == {Property("Font", FontA), Property("Font", FontB)}

PropertyIds ==
  {"FontFamily", "FontSize", "FontStyle", "FontWeight", "FontStretch",
   "FontVariantCaps", "LineHeight", "Font", "Color"}

AllUnparsed == {Property("Unparsed", UnparsedProperty(pid, 1)) : pid \in PropertyIds}

InUnparsed ==
  {Property("Unparsed", UnparsedProperty(pid, 1)) : pid \in {"FontSize", "Font", "Color"}}

InOther == {Property("Color", [tag |-> "Red"])}

\* Declarations outside the font group: typed ones, among them vertical-align,
\* whose value type lives in the font module, and raw ones.
AllOther ==
  InOther \cup {Property("VerticalAlign", [tag |-> "Keyword", kw |-> "Top"])}
          \cup {Property("Unparsed", UnparsedProperty(pid, 1)) :
                  pid \in {"Color", "VerticalAlign"}}

InProperties == InLonghands \cup InShorthands \cup InUnparsed \cup InOther

\* The declarations offered once the output list is no longer empty.
LaterProperties ==
  {Property("FontWeight", WeightAbsolute(AbsBold)),
   Property("FontVariantCaps", Caps("AllSmallCaps")),
   Property("Font", FontA),
   Property("Unparsed", UnparsedProperty("FontSize", 1)),
   Property("Color", [tag |-> "Red"])}

\* The last call: its name and what it returned.
Call(op, ret) == [op |-> op, ret |-> ret]

NoText ==
  /\ pc = "idle"
  /\ ty = ""
  /\ value = StyleNormal
  /\ minify = FALSE
  /\ css = <<>>
  /\ result = None

NewHandler ==
  /\ family = None
  /\ size = None
  /\ style = None
  /\ weight = None
  /\ stretch = None
  /\ line_height = None
  /\ variant_caps = None
  /\ has_any = FALSE
  /\ dest = <<>>
  /\ last = Call("new", None)
  /\ ntail = 0

NewBlock ==
  /\ important = [self |-> FontHandlerDefault, decls |-> <<>>]
  /\ taken = <<>>

Init == NewHandler /\ NoText /\ NewBlock

SetHandler(self) ==
  /\ family' = self.family
  /\ size' = self.size
  /\ style' = self.style
  /\ weight' = self.weight
  /\ stretch' = self.stretch
  /\ line_height' = self.line_height
  /\ variant_caps' = self.variant_caps
  /\ has_any' = self.has_any

HandleProperty ==
  \E property \in (IF dest = <<>> THEN InProperties ELSE LaterProperties) :
    LET r == handle_property(Self, property, dest)
    IN /\ r.ret => ntail < MaxTail
       /\ SetHandler(r.self)
       /\ dest' = r.decls
       /\ last' = Call("handle_property", Some(r.ret))
       /\ ntail' = IF dest = <<>> \/ ~r.ret THEN ntail ELSE ntail + 1
       /\ UNCHANGED <<textVars, blockVars>>

Finalize ==
  /\ LET r == finalize(Self, dest)
     IN /\ SetHandler(r.self)
        /\ dest' = r.decls
  /\ last' = Call("finalize", None)
  /\ UNCHANGED <<ntail, textVars, blockVars>>

Next == HandleProperty \/ Finalize

Spec == Init /\ [][Next]_vars

(***************************************************************************)
(* Writing a value with to_css and reading the text back with parse.       *)
(***************************************************************************)
ToCss(t, v, m) ==
  CASE t = "font-weight" -> FontWeight_to_css(v, m)
    [] t = "font-size" -> FontSize_to_css(v, m)
    [] t = "font-stretch" -> FontStretch_to_css(v, m)
    [] t = "font-family" -> FontFamily_to_css(v, m)
    [] t = "font-style" -> FontStyle_to_css(v, m)
    [] t = "font-variant-caps" -> FontVariantCaps_to_css(v, m)
    [] t = "line-height" -> LineHeight_to_css(v, m)
    [] t = "vertical-align" -> VerticalAlign_to_css(v, m)
    [] t = "font" -> Font_to_css(v, m)

Parse(t, text) ==
  LET input == skip_whitespace(text)
  IN CASE t = "font-weight" -> FontWeight_parse(input)
       [] t = "font-size" -> FontSize_parse(input)
       [] t = "font-stretch" -> FontStretch_parse(input)
       [] t = "font-family" -> FontFamily_parse(input)
       [] t = "font-style" -> FontStyle_parse(input)
       [] t = "font-variant-caps" -> FontVariantCaps_parse(input)
       [] t = "line-height" -> LineHeight_parse(input)
       [] t = "vertical-align" -> VerticalAlign_parse(input)
       [] t = "font" -> Font_parse(input)

Lengths == {Dimension(12, "px"), Dimension(2, "em"), PercentageLP(1200)}

FontWeightValues ==
  {WeightAbsolute(a) : a \in {AbsNormal, AbsBold, AbsWeight(400), AbsWeight(550)}}
    \cup {WeightBolder, WeightLighter}

FontSizeValues ==
  {SizeLength(lp) : lp \in Lengths} \cup {SizeAbsolute(k) : k \in Variants(AbsoluteFontSize)}
    \cup {SizeRelative(k) : k \in Variants(RelativeFontSize)}

FontStretchValues ==
  {StretchKeyword(k) : k \in Variants(FontStretchKeyword)}
    \cup {StretchPercentage(p) : p \in {500, 1000, 1100}}

FamilyNames ==
  {<<"My", "Font">>, <<"Font">>, <<"serif">>, <<"SERIF">>, <<"inherit">>, <<"123px">>,
   <<"sans-serif">>, <<"default">>,
   <<"a!">>, <<"">>, <<"My", "", "Font">>, <<"", "x">>, <<"serif", "x">>, <<"x", "serif">>}

FontFamilyValues ==
  {Generic(g) : g \in Variants(GenericFontFamily)} \cup {FamilyName(n) : n \in FamilyNames}

FontStyleValues == {StyleNormal, StyleItalic, StyleOblique(14), StyleOblique(20)}

FontVariantCapsValues == {Caps(k) : k \in Variants(FontVariantCaps)}

LineHeightValues ==
  {LineHeightNormal, LineHeightNumber(2)} \cup {LineHeightLength(lp) : lp \in Lengths}

VerticalAlignValues ==
  {VerticalAlignKw(k) : k \in Variants(VerticalAlignKeyword)}
    \cup {VerticalAlignLength(lp) : lp \in Lengths}

FontValues ==
  {Font(fam, sz, st, w, str, lh, vc) :
     fam \in {<<Generic("Serif")>>, <<FamilyName(<<"My", "Font">>), Generic("SansSerif")>>},
     sz \in {SizeLength(Dimension(12, "px")), SizeAbsolute("Medium")},
     st \in {StyleNormal, StyleItalic, StyleOblique(20)},
     w \in {WeightAbsolute(AbsNormal), WeightAbsolute(AbsBold), WeightAbsolute(AbsWeight(400)),
            WeightBolder},
     str \in {StretchKeyword("Normal"), StretchKeyword("Condensed"), StretchPercentage(500)},
     lh \in {LineHeightNormal, LineHeightNumber(2)},
     vc \in {CapsCSS2("Normal"), CapsCSS2("SmallCaps")}}

\* Take a value of one of the value types and a minify flag.
TakeValue ==
  /\ \/ ty' = "font-weight" /\ value' \in FontWeightValues
     \/ ty' = "font-size" /\ value' \in FontSizeValues
     \/ ty' = "font-stretch" /\ value' \in FontStretchValues
     \/ ty' = "font-family" /\ value' \in FontFamilyValues
     \/ ty' = "font-style" /\ value' \in FontStyleValues
     \/ ty' = "font-variant-caps" /\ value' \in FontVariantCapsValues
     \/ ty' = "line-height" /\ value' \in LineHeightValues
     \/ ty' = "vertical-align" /\ value' \in VerticalAlignValues
     \/ ty' = "font" /\ value' \in FontValues
  /\ minify' \in BOOLEAN
  /\ css' = <<>>
  /\ result' = None

NewValue ==
  /\ pc \in {"idle", "parsed"}
  /\ TakeValue
  /\ pc' = "value"
  /\ UNCHANGED <<blockVars, handlerVars, dest, last, ntail>>

WriteCss ==
  /\ pc = "value"
  /\ css' = ToCss(ty, value, minify)
  /\ pc' = "css"
  /\ UNCHANGED <<blockVars, handlerVars, dest, last, ntail, ty, value, minify, result>>

ReadCss ==
  /\ pc = "css"
  /\ result' = Some(Parse(ty, css))
  /\ pc' = "parsed"
  /\ UNCHANGED <<blockVars, handlerVars, dest, last, ntail, ty, value, minify, css>>

NextText == NewValue \/ WriteCss \/ ReadCss

SpecText == Init /\ [][NextText]_vars

\* C6: for every value of every value type of the font module, with minify on
\* and off, parsing the text to_css wrote gives the value back, structurally
\* equal, and uses all the text.
C6_RoundTrip ==
  pc = "parsed" => (result[1].ok /\ result[1].rest = <<>> /\ result[1].val = value)

\* The value has been written.
Written == pc \in {"css", "parsed"}

\* The spellings of the generic families and reserved keywords.
GenericSpellings == {GenericFontFamily[i][2] : i \in 1..Len(GenericFontFamily)}

\* C12: a family name spelt like a generic family or a reserved keyword of
\* GenericFontFamily is written as a quoted string, with minify on and off.
C12_GenericSpellingQuoted ==
  (Written /\ ty = "font-family" /\ value.tag = "FamilyName" /\ Len(value.name) = 1
     /\ value.name[1] \in GenericSpellings)
    => css = <<QuotedString(value.name)>>

C12_Witness ==
  /\ pc = "css"
  /\ ty = "font-family"
  /\ value = FamilyName(<<"sans-serif">>)
  /\ minify
  /\ css = <<QuotedString(<<"sans-serif">>)>>

\* A word that is a CSS identifier as it stands: not empty, written without an
\* escape.
PlainIdentifier(w) == w # "" /\ serialize_identifier(w).len = word_len(w)

\* C15: a family name is written unquoted exactly when each of its
\* space-separated words is a valid identifier that needs no escaping (the
\* identifier text is then no longer than the quoted form), and quoted in every
\* other case: `My Font` unquoted, `123px` quoted.
C15_UnquotedIffPlainIdentifiers ==
  (Written /\ ty = "font-family" /\ value.tag = "FamilyName") =>
    ((css # <<QuotedString(value.name)>>)
       <=> (\A i \in 1..Len(value.name) : PlainIdentifier(value.name[i])))

RECURSIVE comma_joined(_, _)
\* Texts joined by a comma (and, unless minifying, a space), none after the last.
comma_joined(texts, m) ==
  IF Len(texts) = 1 THEN texts[1]
  ELSE texts[1] \o <<Comma>> \o (IF m THEN <<>> ELSE <<Whitespace>>)
         \o comma_joined(Tail(texts), m)

\* C16: Font::to_css writes style, variant-caps, weight, stretch, each followed
\* by a space and only if it is not the default; then the size, always; then
\* `/` and the line-height only if it is not normal; then a space and the
\* families joined by commas, no comma after the last.
C16_FontToCssOrder ==
  (Written /\ ty = "font") =>
    LET v == value
        opt(on, text) == IF on THEN text \o <<Whitespace>> ELSE <<>>
        slash == IF minify THEN <<Delim("/")>> ELSE <<Whitespace, Delim("/"), Whitespace>>
    IN css =
         opt(v.style # StyleNormal, FontStyle_to_css(v.style, minify))
           \o opt(v.variant_caps # CapsCSS2("Normal"),
                  FontVariantCapsCSS2_to_css(v.variant_caps, minify))
           \o opt(v.weight # WeightAbsolute(AbsNormal), FontWeight_to_css(v.weight, minify))
           \o opt(v.stretch # StretchKeyword("Normal"), FontStretch_to_css(v.stretch, minify))
           \o FontSize_to_css(v.size, minify)
           \o (IF v.line_height # LineHeightNormal
                 THEN slash \o LineHeight_to_css(v.line_height, minify) ELSE <<>>)
           \o <<Whitespace>>
           \o comma_joined([i \in 1..Len(v.family) |-> FontFamily_to_css(v.family[i], minify)],
                           minify)

C16_Witness ==
  /\ pc = "css"
  /\ ty = "font"
  /\ ~minify
  /\ value = Font(<<FamilyName(<<"My", "Font">>), Generic("SansSerif")>>,
                  SizeLength(Dimension(12, "px")), StyleItalic, WeightBolder,
                  StretchKeyword("Condensed"), LineHeightNumber(2), CapsCSS2("SmallCaps"))
  /\ css = <<Ident("italic"), Whitespace, Ident("small-caps"), Whitespace, Ident("bolder"),
             Whitespace, Ident("condensed"), Whitespace, DimensionToken(12, "px"),
             Whitespace, Delim("/"), Whitespace, Number(2), Whitespace, Ident("My"),
             Whitespace, Ident("Font"), Comma, Whitespace, Ident("sans-serif")>>

(***************************************************************************)
(* Font::parse on the text of a font shorthand: leading component tokens,  *)
(* then what follows them.                                                 *)
(***************************************************************************)
MaxLead == 5

\* The tokens the loop of Font::parse can take before the size, each with the
\* slot it goes to.
LeadTokens ==
  {Ident("normal"), Ident("italic"), Ident("bold"), Ident("small-caps"), Ident("condensed")}

\* What follows the leading tokens, with the size, line-height and families
\* written there (None where there is no size).
Endings ==
  {[text |-> <<DimensionToken(12, "px"), Ident("serif")>>,
    size |-> Some(SizeLength(Dimension(12, "px"))), line_height |-> LineHeightNormal,
    family |-> <<Generic("Serif")>>],
   [text |-> <<Ident("medium"), Delim("/"), Number(2), Ident("My"), Ident("Font"), Comma,
               Ident("sans-serif")>>,
    size |-> Some(SizeAbsolute("Medium")), line_height |-> LineHeightNumber(2),
    family |-> <<FamilyName(<<"My", "Font">>), Generic("SansSerif")>>],
   [text |-> <<DimensionToken(12, "px")>>,
    size |-> Some(SizeLength(Dimension(12, "px"))), line_height |-> LineHeightNormal,
    family |-> <<>>],
   [text |-> <<Ident("serif")>>, size |-> None, line_height |-> LineHeightNormal,
    family |-> <<Generic("Serif")>>],
   [text |-> <<>>, size |-> None, line_height |-> LineHeightNormal, family |-> <<>>]}

\* Take the text of a font shorthand value.
TakeText ==
  /\ pc = "idle"
  /\ \E n \in 0..MaxLead : \E lead \in [1..n -> LeadTokens] : \E e \in Endings :
       css' = lead \o e.text
  /\ ty' = "font"
  /\ pc' = "text"
  /\ UNCHANGED <<blockVars, handlerVars, dest, last, ntail, value, minify, result>>

ParseFont ==
  /\ pc = "text"
  /\ result' = Some(Parse("font", css))
  /\ pc' = "read"
  /\ UNCHANGED <<blockVars, handlerVars, dest, last, ntail, ty, value, minify, css>>

NextParse == TakeText \/ ParseFont

SpecParse == Init /\ [][NextParse]_vars

RECURSIVE leading(_)
\* The leading component tokens of a text, and its ending.
leading(text) ==
  IF text # <<>> /\ text[1] \in LeadTokens THEN <<text[1]>> \o leading(Tail(text)) ELSE <<>>

ending(text) ==
  CHOOSE e \in Endings : e.text = SubSeq(text, Len(leading(text)) + 1, Len(text))

\* C11: Font::parse fails with InvalidDeclaration for every value in which five
\* or more leading component tokens precede the size token.
C11_FiveLeadingInvalid ==
  (pc = "read" /\ Len(leading(css)) >= 5 /\ ending(css).size # None)
    => result[1] = Err("InvalidDeclaration")

\* C13: Font::parse fails with InvalidDeclaration whenever no font-size follows
\* the leading keywords.
C13_MissingSizeInvalid ==
  (pc = "read" /\ ending(css).size = None) => result[1] = Err("InvalidDeclaration")

\* C17: in a successful Font::parse no slot was offered two tokens, a leading
\* `normal` went to no slot, and every slot no token filled has its default:
\* style Normal, weight Absolute(Normal), stretch Keyword(Normal), variant-caps
\* Normal, line-height Normal.
C17_NormalCountedSlotsDefault ==
  (pc = "read" /\ result[1].ok) =>
    LET lead == leading(css)
        e == ending(css)
        has(tok) == \E i \in 1..Len(lead) : lead[i] = tok
    IN /\ \A i, j \in 1..Len(lead) :
            (i # j /\ lead[i] = lead[j]) => lead[i] = Ident("normal")
       /\ result[1].val =
            Font(e.family, e.size[1],
                 IF has(Ident("italic")) THEN StyleItalic ELSE StyleNormal,
                 IF has(Ident("bold")) THEN WeightAbsolute(AbsBold)
                                       ELSE WeightAbsolute(AbsNormal),
                 IF has(Ident("condensed")) THEN StretchKeyword("Condensed")
                                            ELSE StretchKeyword("Normal"),
                 e.line_height,
                 IF has(Ident("small-caps")) THEN CapsCSS2("SmallCaps")
                                             ELSE CapsCSS2("Normal"))

C17_Witness ==
  /\ pc = "read"
  /\ css = <<Ident("normal"), Ident("italic"), Ident("normal"), DimensionToken(12, "px"),
             Ident("serif")>>
  /\ result[1].ok
  /\ result[1].val.style = StyleItalic
  /\ result[1].val.weight = WeightAbsolute(AbsNormal)

(***************************************************************************)
(* The claims about FontHandler.  They read the handler's state through    *)
(* the definitions below, which say what is expected without using the     *)
(* model of finalize.                                                      *)
(***************************************************************************)
Slots == <<family, size, style, variant_caps, weight, stretch, line_height>>

CanonicalOrder ==
  <<"FontFamily", "FontSize", "FontStyle", "FontVariantCaps", "FontWeight",
    "FontStretch", "LineHeight">>

NumPopulated ==
  Len(family) + Len(size) + Len(style) + Len(variant_caps) + Len(weight) + Len(stretch)
    + Len(line_height)

AllPopulated == NumPopulated = 7

CSS2Caps == {Caps("Normal"), Caps("SmallCaps")}

ExpectedFont(vc) ==
  Property("Font",
    [family |-> family[1], size |-> size[1], style |-> style[1], weight |-> weight[1],
     stretch |-> stretch[1], line_height |-> line_height[1], variant_caps |-> vc])

\* The declaration of a populated slot, nothing for an empty one.
Longhand(i) == [k \in 1..Len(Slots[i]) |-> [id |-> CanonicalOrder[i], val |-> Slots[i][k]]]

ExpectedLonghands ==
  Longhand(1) \o Longhand(2) \o Longhand(3) \o Longhand(4) \o Longhand(5) \o Longhand(6)
    \o Longhand(7)

ExpectedFlush ==
  IF NumPopulated = 0 THEN <<>>
  ELSE IF ~AllPopulated THEN ExpectedLonghands
  ELSE IF variant_caps[1] \in CSS2Caps
    THEN <<ExpectedFont(CapsCSS2(variant_caps[1].caps))>>
    ELSE <<ExpectedFont(CapsCSS2("Normal")), Property("FontVariantCaps", variant_caps[1])>>

\* C1: finalize with all seven slots populated and a font-variant-caps of normal
\* or small-caps appends exactly one declaration, the font shorthand carrying the
\* seven values, and no longhand.
C1_ShorthandOnly ==
  (AllPopulated /\ variant_caps[1] \in CSS2Caps) =>
    finalize(Self, dest).decls =
      Append(dest, ExpectedFont(CapsCSS2(variant_caps[1].caps)))

C1_Witness ==
  /\ last.op = "finalize"
  /\ dest = <<Property("Font",
               Font(FamilyL, SizeLength(Dimension(12, "px")), StyleItalic,
                    WeightAbsolute(AbsBold), StretchPercentage(500), LineHeightNumber(2),
                    CapsCSS2("SmallCaps")))>>

CSS3OnlyCaps ==
  {Caps(k) : k \in {"AllSmallCaps", "PetiteCaps", "AllPetiteCaps", "Unicase", "TitlingCaps"}}

\* C2: finalize with all seven slots populated and a CSS3-only font-variant-caps
\* appends exactly two declarations: the font shorthand with variant-caps normal,
\* then the font-variant-caps longhand with the accumulated value.
C2_ShorthandThenCaps ==
  /\ (AllPopulated /\ variant_caps[1] \notin CSS2Caps) =>
       finalize(Self, dest).decls =
         dest \o <<ExpectedFont(CapsCSS2("Normal")),
                   Property("FontVariantCaps", variant_caps[1])>>
  /\ NumPopulated - Len(variant_caps) = 6 =>
       \A c \in CSS3OnlyCaps :
         LET r == handle_property(Self, Property("FontVariantCaps", c), dest)
         IN finalize(r.self, r.decls).decls =
              dest \o <<ExpectedFont(CapsCSS2("Normal")), Property("FontVariantCaps", c)>>

C2_Witness ==
  /\ last.op = "finalize"
  /\ dest = <<Property("Font",
               Font(FamilyL, SizeLength(Dimension(12, "px")), StyleItalic,
                    WeightAbsolute(AbsBold), StretchPercentage(500), LineHeightNumber(2),
                    CapsCSS2("Normal"))),
              Property("FontVariantCaps", Caps("AllSmallCaps"))>>

\* C3: finalize with some but not all slots populated appends no font shorthand
\* but one longhand per populated slot, with the slot's value, in the order
\* family, size, style, variant-caps, weight, stretch, line-height.
C3_LonghandsInOrder ==
  (NumPopulated >= 1 /\ NumPopulated < 7) =>
    LET decls == finalize(Self, dest).decls
    IN /\ decls = dest \o ExpectedLonghands
       /\ Len(decls) = Len(dest) + NumPopulated
       /\ \A i \in (Len(dest) + 1)..Len(decls) : decls[i].id # "Font"

C3_Witness ==
  /\ last.op = "finalize"
  /\ dest = <<Property("FontSize", SizeLength(Dimension(12, "px"))),
              Property("FontWeight", WeightAbsolute(AbsBold))>>

\* Longhands taken in after a raw declaration.
LaterLonghands == LaterProperties \cap InLonghands

\* C4: a raw (Unparsed) declaration with a font property id is accepted; the
\* flush of the accumulated state comes first in the output, then the raw
\* declaration unchanged; the handler is empty afterwards, and a longhand taken
\* in later is flushed after the raw declaration.
C4_UnparsedFlushesFirst ==
  LET flushed == dest \o ExpectedFlush
      raw == Property("Unparsed", UnparsedProperty("FontSize", 1))
      out == Append(flushed, raw)
  IN /\ \A p \in AllUnparsed :
          p.val.property_id \in LonghandIds \cup {"Font"} =>
            handle_property(Self, p, dest) =
              [self |-> FontHandlerDefault, decls |-> Append(flushed, p), ret |-> TRUE]
     /\ \A l \in LaterLonghands :
          LET r2 == handle_property(FontHandlerDefault, l, out)
          IN /\ r2.decls = out
             /\ finalize(r2.self, out).decls = Append(out, l)

C4_Witness ==
  /\ last.op = "finalize"
  /\ dest = <<Property("FontStyle", StyleItalic),
              Property("Unparsed", UnparsedProperty("FontSize", 1)),
              Property("FontWeight", WeightAbsolute(AbsBold))>>

\* C5: has_any is true exactly when at least one of the seven slots is populated.
C5_HasAnyIffPopulated == has_any <=> NumPopulated >= 1

C5_Witness == last.op = "handle_property" /\ has_any /\ NumPopulated = 1 /\ dest # <<>>

\* C7: an empty handler fed one font shorthand and then finalized appends exactly
\* that shorthand, field for field, and nothing else.
C7_ShorthandReproduced ==
  Self = FontHandlerDefault =>
  \A f \in InShorthands :
    LET r1 == handle_property(FontHandlerDefault, f, dest)
        r2 == finalize(r1.self, r1.decls)
    IN /\ r1.decls = dest
       /\ r2.decls = Append(dest, f)

C7_Witness ==
  /\ last.op = "finalize"
  /\ dest = <<Property("Font", FontB)>>

\* C8: taking in a font shorthand populates all seven slots with the shorthand's
\* fields (variant-caps converted to the full type), whatever was accumulated
\* before, sets has_any and returns true.
C8_ShorthandOverwrites ==
  \A f \in InShorthands :
    LET r == handle_property(Self, f, dest)
    IN /\ r.ret = TRUE
       /\ r.self.family = <<f.val.family>>
       /\ r.self.size = <<f.val.size>>
       /\ r.self.style = <<f.val.style>>
       /\ r.self.weight = <<f.val.weight>>
       /\ r.self.stretch = <<f.val.stretch>>
       /\ r.self.line_height = <<f.val.line_height>>
       /\ r.self.variant_caps = <<Caps(f.val.variant_caps.caps2)>>
       /\ r.self.has_any = TRUE

C8_Witness ==
  /\ last = Call("handle_property", Some(TRUE))
  /\ Self = FontHandler(Some(FontA.family), Some(FontA.size), Some(FontA.style),
                        Some(FontA.weight), Some(FontA.stretch), Some(FontA.line_height),
                        Some(Caps("Normal")), TRUE)
  /\ dest # <<>>

\* C9: finalize with has_any false changes neither the handler nor the output;
\* after any finalize all slots are empty and has_any is false, so a second
\* finalize appends nothing.
C9_FinalizeOnce ==
  LET r == finalize(Self, dest)
      r2 == finalize(r.self, r.decls)
  IN /\ ~has_any => (r.self = Self /\ r.decls = dest)
     /\ r.self = FontHandlerDefault
     /\ r2.self = r.self
     /\ r2.decls = r.decls

C9_Witness == last.op = "finalize" /\ Self = FontHandlerDefault /\ Len(dest) = 2

\* C10: a property outside the font group is declined: handle_property returns
\* false and leaves the slots, has_any and the output unchanged.
C10_OthersDeclined ==
  \A p \in AllOther :
    LET r == handle_property(Self, p, dest)
    IN /\ r.ret = FALSE
       /\ r.self = Self
       /\ r.decls = dest

C10_Witness ==
  /\ last = Call("handle_property", Some(FALSE))
  /\ has_any
  /\ dest # <<>>

IsPrefix(a, b) == Len(a) <= Len(b) /\ SubSeq(b, 1, Len(a)) = a

\* C14: taking in a font longhand or the font shorthand leaves the output list
\* as it is, and every handle_property and finalize step keeps the declarations
\* already in the list, in value and position: the list only grows at its end.
C14_AppendOnly ==
  [][/\ IsPrefix(dest, dest')
     /\ (last' = Call("handle_property", Some(TRUE)) /\ has_any') => dest' = dest]_vars

C14_Witness ==
  /\ last.op = "finalize"
  /\ Len(dest) = 2
  /\ dest[1] = Property("Unparsed", UnparsedProperty("FontSize", 1))
  /\ dest[2] = Property("FontWeight", WeightAbsolute(AbsBold))

\* C18: finalize cannot fail: whatever slots are populated and whatever they
\* hold, every unwrap it reaches is on a populated slot, and it ends with the
\* handler empty and the list extended by at most eight declarations.
C18_FinalizeNeverPanics ==
  /\ \A i \in 1..Len(finalize_unwraps(Self)) : is_some(finalize_unwraps(Self)[i])
  /\ finalize(Self, dest).self = FontHandlerDefault
  /\ Len(finalize(Self, dest).decls) - Len(dest) \in 0..8

C18_Witness ==
  /\ last = Call("handle_property", Some(TRUE))
  /\ has_any
  /\ Len(finalize_unwraps(Self)) = 8
  /\ Len(finalize(Self, dest).decls) = Len(dest) + 2

(***************************************************************************)
(* A sequence of font declarations taken in by a new handler, then one     *)
(* finalize.                                                               *)
(***************************************************************************)
MaxInput == 3

\* The declarations of the font group: typed longhands, shorthands, raw ones.
FontDeclarations ==
  InLonghands \cup InShorthands
    \cup {p \in AllUnparsed : is_font_property(p.val.property_id)}

TakeDeclaration ==
  /\ pc = "idle"
  /\ Len(taken) < MaxInput
  /\ \E property \in FontDeclarations :
       LET r == handle_property(Self, property, dest)
       IN /\ SetHandler(r.self)
          /\ dest' = r.decls
          /\ taken' = Append(taken, property)
          /\ last' = Call("handle_property", Some(r.ret))
  /\ UNCHANGED <<ntail, textVars, important>>

Flush ==
  /\ pc = "idle"
  /\ LET r == finalize(Self, dest)
     IN SetHandler(r.self) /\ dest' = r.decls
  /\ last' = Call("finalize", None)
  /\ pc' = "flushed"
  /\ UNCHANGED <<ntail, ty, value, minify, css, result, blockVars>>

NextCascade == TakeDeclaration \/ Flush

SpecCascade == Init /\ [][NextCascade]_vars

\* The value a list of declarations leaves each longhand with: none, a typed
\* value, or a raw declaration.
Unset == [set |-> FALSE]

Typed(v) == [set |-> TRUE, raw |-> FALSE, val |-> v]

Raw(u) == [set |-> TRUE, raw |-> TRUE, by |-> u]

SlotOf(id) ==
  CASE id = "FontFamily" -> "family"
    [] id = "FontSize" -> "size"
    [] id = "FontStyle" -> "style"
    [] id = "FontWeight" -> "weight"
    [] id = "FontStretch" -> "stretch"
    [] id = "LineHeight" -> "line_height"
    [] id = "FontVariantCaps" -> "variant_caps"

\* A later declaration wins: a longhand sets its property, a font shorthand
\* sets all seven, a raw declaration sets the property it names.
Cascade(eff, p) ==
  IF p.id = "Unparsed"
    THEN IF p.val.property_id = "Font"
           THEN [family |-> Raw(p.val), size |-> Raw(p.val), style |-> Raw(p.val),
                 weight |-> Raw(p.val), stretch |-> Raw(p.val), line_height |-> Raw(p.val),
                 variant_caps |-> Raw(p.val)]
           ELSE [eff EXCEPT ![SlotOf(p.val.property_id)] = Raw(p.val)]
  ELSE IF p.id = "Font"
    THEN [family |-> Typed(p.val.family), size |-> Typed(p.val.size),
          style |-> Typed(p.val.style), weight |-> Typed(p.val.weight),
          stretch |-> Typed(p.val.stretch), line_height |-> Typed(p.val.line_height),
          variant_caps |-> Typed(Caps(p.val.variant_caps.caps2))]
  ELSE [eff EXCEPT ![SlotOf(p.id)] = Typed(p.val)]

RECURSIVE Effective(_)
Effective(decls) ==
  IF decls = <<>>
    THEN [family |-> Unset, size |-> Unset, style |-> Unset, weight |-> Unset,
          stretch |-> Unset, line_height |-> Unset, variant_caps |-> Unset]
    ELSE Cascade(Effective(SubSeq(decls, 1, Len(decls) - 1)), decls[Len(decls)])

\* C20: after a new handler has taken in a sequence of font declarations and
\* finalize has run, the output list leaves each of the seven longhands with
\* the value the sequence taken in leaves it with.
C20_CascadeEquivalence ==
  pc = "flushed" => Effective(dest) = Effective(taken)

C20_Witness ==
  /\ pc = "flushed"
  /\ taken = <<Property("Font", FontA), Property("FontVariantCaps", Caps("AllSmallCaps")),
               Property("FontSize", SizeLength(Dimension(12, "px")))>>
  /\ Len(dest) = 2
  /\ dest[1].id = "Font"
  /\ dest[1].val.size = SizeLength(Dimension(12, "px"))
  /\ dest[2] = Property("FontVariantCaps", Caps("AllSmallCaps"))

(***************************************************************************)
(* The declarations of a style rule: StyleRule::minify hands the block a   *)
(* handler for the normal declarations and one for the `!important` ones.  *)
(* Each declaration goes to the handler of its kind, and at the end of the *)
(* block both handlers are finalized, the normal one first.                *)
(***************************************************************************)
\* A routing that sends every declaration to the normal handler.
route_all_normal(is_important) == FALSE

\* TRUE for the important handler and list, FALSE for the normal ones.
route(is_important) == is_important

\* One declaration offered to a handler; a declaration the handler declines
\* goes to the list as it is.
minify_declaration(h, property) ==
  LET r == handle_property(h.self, property, h.decls)
  IN IF r.ret THEN [self |-> r.self, decls |-> r.decls]
     ELSE [self |-> h.self, decls |-> Append(h.decls, property)]

NormalDeclarations == InLonghands

ImportantDeclarations ==
  {Property("FontFamily", FontB.family),
   Property("FontSize", FontB.size),
   Property("FontStyle", FontB.style),
   Property("FontWeight", FontB.weight),
   Property("FontStretch", FontB.stretch),
   Property("LineHeight", FontB.line_height),
   Property("FontVariantCaps", Caps("PetiteCaps"))}

MinifyDeclaration ==
  /\ pc = "idle"
  /\ \E is_important \in BOOLEAN :
       \E property \in (IF is_important THEN ImportantDeclarations ELSE NormalDeclarations) :
         /\ IF route(is_important)
              THEN /\ important' = minify_declaration(important, property)
                   /\ UNCHANGED <<handlerVars, dest>>
              ELSE /\ LET h == minify_declaration([self |-> Self, decls |-> dest], property)
                      IN SetHandler(h.self) /\ dest' = h.decls
                   /\ UNCHANGED important
         /\ last' = Call(IF is_important THEN "minify_important" ELSE "minify_normal", None)
  /\ UNCHANGED <<ntail, textVars, taken>>

BlockEnd ==
  /\ pc = "idle"
  /\ LET r == finalize(Self, dest)
     IN SetHandler(r.self) /\ dest' = r.decls
  /\ important' = finalize(important.self, important.decls)
  /\ last' = Call("finalize", None)
  /\ pc' = "minified"
  /\ UNCHANGED <<ntail, ty, value, minify, css, result, taken>>

NextBlock == MinifyDeclaration \/ BlockEnd

SpecBlock == Init /\ [][NextBlock]_vars

\* What the normal declarations can fold into, and what the important ones can.
NormalShorthands ==
  {Property("Font", Font(FamilyL, SizeLength(Dimension(12, "px")), StyleItalic,
                         WeightAbsolute(AbsBold), StretchPercentage(500),
                         LineHeightNumber(2), CapsCSS2(k))) : k \in {"Normal", "SmallCaps"}}

ImportantShorthands ==
  {Property("Font", Font(FontB.family, FontB.size, FontB.style, FontB.weight, FontB.stretch,
                         FontB.line_height, CapsCSS2("Normal")))}

\* C19: the normal and the important declarations have separate handlers and
\* lists: a step for an important declaration changes neither the normal
\* handler nor the normal list, a step for a normal one neither the important
\* handler nor the important list, and every declaration in either list, a
\* font shorthand included, is made of values of that list's declarations only.
C19_ImportantKeptApart ==
  /\ [](/\ \A i \in 1..Len(dest) : dest[i] \in NormalDeclarations \cup NormalShorthands
        /\ \A i \in 1..Len(important.decls) :
             important.decls[i] \in ImportantDeclarations \cup ImportantShorthands)
  /\ [][/\ last'.op = "minify_important" => UNCHANGED <<handlerVars, dest>>
        /\ last'.op = "minify_normal" => UNCHANGED important]_vars

C19_Witness ==
  /\ pc = "minified"
  /\ dest = <<Property("Font", Font(FamilyL, SizeLength(Dimension(12, "px")), StyleItalic,
                                    WeightAbsolute(AbsBold), StretchPercentage(500),
                                    LineHeightNumber(2), CapsCSS2("SmallCaps")))>>
  /\ important.decls =
       <<Property("Font", Font(FontB.family, FontB.size, FontB.style, FontB.weight,
                               FontB.stretch, FontB.line_height, CapsCSS2("Normal"))),
         Property("FontVariantCaps", Caps("PetiteCaps"))>>

\* The font shorthands in the output list.
EmittedFonts == {dest[i].val : i \in {j \in 1..Len(dest) : dest[j].id = "Font"}}

\* C21: every font shorthand finalize has emitted can be written by
\* Font::to_css, with minify on and off, and read back by Font::parse, which
\* succeeds and gives the same family, size, style, weight, stretch,
\* line-height and variant-caps, also when the stretch is a percentage or a
\* keyword other than normal.
C21_EmittedShorthandReparses ==
  \A f \in EmittedFonts : \A m \in BOOLEAN :
    LET r == Parse("font", Font_to_css(f, m))
    IN r.ok /\ r.rest = <<>> /\ r.val = f

====
